---- MODULE Spec2Model ----
(***************************************************************************)
(* A model of skills/openpr-mcp/scripts/mcp-regression.py: the regression  *)
(* runner that calls the OpenPR MCP tools over three transports (HTTP,     *)
(* STDIO, SSE), checks every result with a predicate and tallies           *)
(* PASS / FAIL / SKIP.                                                     *)
(*                                                                         *)
(* Two state machines share the module:                                    *)
(*   Spec     the main script (lines 120-216): one step per call site, the *)
(*            transport call being one atomic step whose raw outcome the   *)
(*            environment chooses;                                         *)
(*   SpecSSE  the inside of sse_call (lines 40-94): the caller and the     *)
(*            listener threads it starts, interleaved.                     *)
(***************************************************************************)
EXTENDS Integers, Sequences, FiniteSets, TLC

(***************************************************************************)
(* Python / JSON values.  A value is a record tagged by k:                 *)
(*   none | bool b | int n | str s | list items | dict f                   *)
(* and Raise stands for "the evaluation raised an exception".              *)
(***************************************************************************)
None == [k |-> "none"]
Raise == [k |-> "raise"]
Bool(b) == [k |-> "bool", b |-> b]
Num(n) == [k |-> "int", n |-> n]
Str(s) == [k |-> "str", s |-> s]
List(items) == [k |-> "list", items |-> items]
Dict(f) == [k |-> "dict", f |-> f]
EmptyDict == Dict(<<>>)
EmptyList == List(<<>>)

\* Python truthiness (`if content`, `if ok`, `if wi_id`).
Truthy(v) ==
    CASE v.k = "none" -> FALSE
      [] v.k = "bool" -> v.b
      [] v.k = "int"  -> v.n # 0
      [] v.k = "str"  -> v.s # ""
      [] v.k = "list" -> Len(v.items) > 0
      [] v.k = "dict" -> DOMAIN v.f # {}
      [] OTHER        -> FALSE

\* key in d, for a dict d.
HasKey(d, key) == key \in DOMAIN d.f

\* d.get(key, default): AttributeError on anything but a dict.
Get(d, key, default) ==
    IF d.k # "dict" THEN Raise
    ELSE IF HasKey(d, key) THEN d.f[key] ELSE default

\* d[key]: KeyError on a missing key, TypeError on a value that is no dict
\* (the keys of this script are strings, so a str or a list raises too).
Item(d, key) ==
    IF d.k # "dict" THEN Raise
    ELSE IF HasKey(d, key) THEN d.f[key] ELSE Raise

(***************************************************************************)
(* The texts of the model and what json.loads makes of them.  A text that  *)
(* is not in the table is not JSON: json.loads raises.                     *)
(***************************************************************************)
T_ok_id1    == "{\"code\":0,\"data\":{\"id\":\"id-1\"}}"
T_ok_id2    == "{\"code\":0,\"data\":{\"id\":\"id-2\"}}"
T_ok        == "{\"code\":0,\"data\":{}}"
T_ok_sdata  == "{\"code\":0,\"data\":\"done\"}"
T_ok_noid   == "{\"code\":0,\"data\":{\"id\":\"\"}}"
T_err       == "{\"code\":1,\"message\":\"not found\"}"
T_err_id1   == "{\"code\":1,\"data\":{\"id\":\"id-1\"}}"
T_url       == "{\"url\":\"/files/x.log\"}"
T_removed   == "Label Removed"
T_plain     == "internal failure"

V_ok_id1   == Dict([code |-> Num(0), data |-> Dict([id |-> Str("id-1")])])
V_ok_id2   == Dict([code |-> Num(0), data |-> Dict([id |-> Str("id-2")])])
V_ok       == Dict([code |-> Num(0), data |-> EmptyDict])
V_ok_sdata == Dict([code |-> Num(0), data |-> Str("done")])
V_ok_noid  == Dict([code |-> Num(0), data |-> Dict([id |-> Str("")])])
V_err      == Dict([code |-> Num(1), message |-> Str("not found")])
V_err_id1  == Dict([code |-> Num(1), data |-> Dict([id |-> Str("id-1")])])
V_url      == Dict([url |-> Str("/files/x.log")])

\* A JSON-RPC response carrying a tool result text: result.content[0].text.
Env(text) ==
    Dict([jsonrpc |-> Str("2.0"), id |-> Num(1),
          result |-> Dict([content |-> List(<<Dict([type |-> Str("text"),
                                                    text |-> text])>>)])])
\* A JSON-RPC error response: no result at all.
EnvRpcError ==
    Dict([jsonrpc |-> Str("2.0"), id |-> Num(1),
          error |-> Dict([code |-> Num(-32601), message |-> Str("no such tool")])])
\* "result": null.
EnvNullResult == Dict([jsonrpc |-> Str("2.0"), id |-> Num(1), result |-> None])
\* A result whose content has no text item.
EnvNoText ==
    Dict([jsonrpc |-> Str("2.0"), id |-> Num(1),
          result |-> Dict([content |-> List(<<Dict([type |-> Str("image")])>>)])])
\* A result whose content is a number.
EnvIntContent ==
    Dict([jsonrpc |-> Str("2.0"), id |-> Num(1),
          result |-> Dict([content |-> Num(7)])])
\* A result whose text is a number, not a string.
EnvIntText == Env(Num(5))
\* The response of the event-stream scenario: the payload sits in result itself.
EnvCode0 == Dict([jsonrpc |-> Str("2.0"), id |-> Num(1),
                  result |-> Dict([code |-> Num(0)])])
\* A body that is a JSON array.
BodyList == List(<<Num(1)>>)

\* Serialized JSON-RPC responses: the lines of the STDIO process's output and
\* the data of the event stream's message events.  D_x is the text of
\* Env(Str(T_x)); D_code0 that of EnvCode0, D_null that of EnvNullResult, and
\* D_bad starts like a JSON object and is not JSON.
D_code0   == "{\"jsonrpc\":\"2.0\",\"id\":1,\"result\":{\"code\":0}}"
D_null    == "{\"jsonrpc\":\"2.0\",\"id\":1,\"result\":null}"
D_bad     == "{not json"
D_ok_id1  == "{\"jsonrpc\":\"2.0\",\"id\":1,\"result\":{\"content\":[{\"type\":\"text\",\"text\":\"{\\\"code\\\":0,\\\"data\\\":{\\\"id\\\":\\\"id-1\\\"}}\"}]}}"
D_ok_id2  == "{\"jsonrpc\":\"2.0\",\"id\":1,\"result\":{\"content\":[{\"type\":\"text\",\"text\":\"{\\\"code\\\":0,\\\"data\\\":{\\\"id\\\":\\\"id-2\\\"}}\"}]}}"
D_ok_noid == "{\"jsonrpc\":\"2.0\",\"id\":1,\"result\":{\"content\":[{\"type\":\"text\",\"text\":\"{\\\"code\\\":0,\\\"data\\\":{\\\"id\\\":\\\"\\\"}}\"}]}}"
D_err     == "{\"jsonrpc\":\"2.0\",\"id\":1,\"result\":{\"content\":[{\"type\":\"text\",\"text\":\"{\\\"code\\\":1,\\\"message\\\":\\\"not found\\\"}\"}]}}"
D_err_id1 == "{\"jsonrpc\":\"2.0\",\"id\":1,\"result\":{\"content\":[{\"type\":\"text\",\"text\":\"{\\\"code\\\":1,\\\"data\\\":{\\\"id\\\":\\\"id-1\\\"}}\"}]}}"
D_url     == "{\"jsonrpc\":\"2.0\",\"id\":1,\"result\":{\"content\":[{\"type\":\"text\",\"text\":\"{\\\"url\\\":\\\"/files/x.log\\\"}\"}]}}"
D_removed == "{\"jsonrpc\":\"2.0\",\"id\":1,\"result\":{\"content\":[{\"type\":\"text\",\"text\":\"Label Removed\"}]}}"

JsonTable ==
    << <<T_ok_id1, V_ok_id1>>, <<T_ok_id2, V_ok_id2>>, <<T_ok, V_ok>>,
       <<T_ok_sdata, V_ok_sdata>>, <<T_ok_noid, V_ok_noid>>, <<T_err, V_err>>,
       <<T_err_id1, V_err_id1>>, <<T_url, V_url>>,
       <<D_code0, EnvCode0>>, <<D_null, EnvNullResult>>,
       <<D_ok_id1, Env(Str(T_ok_id1))>>,
       <<D_ok_id2, Env(Str(T_ok_id2))>>,
       <<D_ok_noid, Env(Str(T_ok_noid))>>,
       <<D_err, Env(Str(T_err))>>,
       <<D_err_id1, Env(Str(T_err_id1))>>,
       <<D_url, Env(Str(T_url))>>,
       <<D_removed, Env(Str(T_removed))>> >>

\* json.loads(v): the parsed value; raises on a text that is not JSON
\* (JSONDecodeError) and on a value that is no text (TypeError).
json_loads(v) ==
    IF v.k # "str" THEN Raise
    ELSE IF \E i \in DOMAIN JsonTable : JsonTable[i][1] = v.s
         THEN JsonTable[CHOOSE i \in DOMAIN JsonTable : JsonTable[i][1] = v.s][2]
         ELSE Raise

\* content[0] of line 17: the first element of a list; IndexError / KeyError /
\* TypeError (Raise) on anything else that is truthy.  A non-empty str would
\* give its first character; the model has no str content.
First(content) ==
    IF content.k = "list" /\ Len(content.items) > 0 THEN content.items[1] ELSE Raise

\* "text" in item (line 17): key membership for a dict, TypeError for a number
\* or None; the model's lists and strs do not hold "text".
TextIn(item) ==
    CASE item.k = "dict" -> Bool(HasKey(item, "text"))
      [] item.k \in {"str", "list"} -> Bool(FALSE)
      [] OTHER -> Raise

\* extract(resp), lines 14-20.
extract(resp) ==
    IF resp.k # "dict" THEN resp
    ELSE LET result == Get(resp, "result", EmptyDict) IN
         LET content == Get(result, "content", EmptyList) IN
         IF content.k = "raise" THEN Raise
         ELSE IF ~Truthy(content) THEN resp
         ELSE LET item == First(content) IN
              IF item.k = "raise" THEN Raise
              ELSE LET has == TextIn(item) IN
                   IF has.k = "raise" THEN Raise
                   ELSE IF ~has.b THEN resp
                   ELSE LET parsed == json_loads(Item(item, "text")) IN
                        IF parsed.k = "raise" THEN Item(item, "text") ELSE parsed

\* {"error": <message>}: what the three callers return on an exception.
ErrorResult(msg) == Dict([error |-> Str(msg)])

(***************************************************************************)
(* The predicates of lines 108-113 and the three lambdas of lines 133, 164 *)
(* and 197.  Each returns the Python value the code returns, or Raise.     *)
(***************************************************************************)
\* r.get("code") == 0, for a dict r.
CodeIsZero(r) == LET c == Get(r, "code", None) IN c.k = "int" /\ c.n = 0

is_ok(r) == Bool(r.k = "dict" /\ CodeIsZero(r))

has_id(r) ==
    IF ~is_ok(r).b THEN Bool(FALSE)
    ELSE Get(Get(r, "data", EmptyDict), "id", None)

get_id(r) ==
    LET d == Item(r, "data") IN
    IF d.k = "raise" THEN None
    ELSE LET i == Item(d, "id") IN IF i.k = "raise" THEN None ELSE i

\* s.lower(), on the texts of the model.
lower(s) == IF s = T_removed THEN "label removed" ELSE s
\* w in s, on the (lowered) texts of the model: the pairs <<w, s>> with w a
\* substring of s, for the four words of line 113.
SuccessWords == {"added", "removed", "deleted", "success"}
SubstringPairs == { <<"removed", "label removed">> }
ok_or_str(r) ==
    IF is_ok(r).b THEN Bool(TRUE)
    ELSE Bool(r.k = "str" /\ \E w \in SuccessWords : <<w, lower(r.s)>> \in SubstringPairs)

is_dict(r) == Bool(r.k = "dict")
has_url(r) == Bool(r.k = "dict" /\ HasKey(r, "url"))
has_code(r) == Bool(r.k = "dict" /\ HasKey(r, "code"))

Predicates == {"is_ok", "has_id", "ok_or_str", "is_dict", "has_url", "has_code"}

\* expect_fn(result)
Apply(pred, r) ==
    CASE pred = "is_ok"     -> is_ok(r)
      [] pred = "has_id"    -> has_id(r)
      [] pred = "ok_or_str" -> ok_or_str(r)
      [] pred = "is_dict"   -> is_dict(r)
      [] pred = "has_url"   -> has_url(r)
      [] pred = "has_code"  -> has_code(r)

(***************************************************************************)
(* The three callers.  Each takes the raw outcome o the environment gives  *)
(* the call and returns what the code returns for it.                      *)
(***************************************************************************)
\* The message of a caught exception, str(e).
ExcMessage == "transport error"

\* http_call without its try/except: what requests.post raises propagates.
http_callMut(o) ==
    IF o.raises THEN Raise
    ELSE IF o.body.k = "raise" THEN ErrorResult(ExcMessage)
    ELSE LET x == extract(o.body) IN
         IF x.k = "raise" THEN ErrorResult(ExcMessage) ELSE x

\* http_call, lines 22-26.  o.raises: requests.post raised (timeout,
\* connection error); o.body: what r.json() returns, Raise for a body that is
\* not JSON.
http_call(o) ==
    IF o.raises \/ o.body.k = "raise" THEN ErrorResult(ExcMessage)
    ELSE LET x == extract(o.body) IN
         IF x.k = "raise" THEN ErrorResult(ExcMessage) ELSE x

\* line.startswith("{"), on the texts of the model.
StartsWithBrace(s) ==
    \/ \E i \in DOMAIN JsonTable : JsonTable[i][1] = s
    \/ s = D_bad

\* The first line of stdout that starts with "{", 0 when there is none.
FirstBrace(lines) ==
    IF \E i \in DOMAIN lines : StartsWithBrace(lines[i])
    THEN CHOOSE i \in DOMAIN lines :
            /\ StartsWithBrace(lines[i])
            /\ \A j \in 1..(i - 1) : ~StartsWithBrace(lines[j])
    ELSE 0

\* stdio_call, lines 28-38.  o.raises: subprocess.run raised (timeout, no
\* binary); o.stdout: the lines of the process's output.
stdio_call(o) ==
    IF o.raises THEN ErrorResult(ExcMessage)
    ELSE LET i == FirstBrace(o.stdout) IN
         IF i = 0 THEN ErrorResult("no JSON output")
         ELSE LET parsed == json_loads(Str(o.stdout[i])) IN
              IF parsed.k = "raise" THEN ErrorResult(ExcMessage)
              ELSE LET x == extract(parsed) IN
                   IF x.k = "raise" THEN ErrorResult(ExcMessage) ELSE x

TimeoutResult == ErrorResult("no SSE response within 10s")


\* What one message event's data gives, line 89: extract(json.loads(data)),
\* Raise when either raises.
HandleMessage(data) ==
    LET parsed == json_loads(Str(data)) IN
    IF parsed.k = "raise" THEN Raise ELSE extract(parsed)

\* The polling loop of lines 84-93 over the events <<type, data>> it dequeues
\* before the deadline: the first message event whose data parses is
\* returned; every other event is passed over (a message that raises is
\* caught by the bare except and the loop continues).
RECURSIVE PollResult(_)
PollResult(events) ==
    IF events = <<>> THEN TimeoutResult
    ELSE LET e == Head(events) IN
         IF e[1] = "message" /\ HandleMessage(e[2]).k # "raise"
         THEN HandleMessage(e[2])
         ELSE PollResult(Tail(events))

\* sse_call, lines 40-94, as one step of the main script.  o.raises: an
\* exception reached the outer handler (the POST raised); o.events: the
\* events the polling loop dequeues before its deadline.
sse_call(o) ==
    IF o.raises THEN ErrorResult(ExcMessage) ELSE PollResult(o.events)

(***************************************************************************)
(* The raw outcomes the environment can give a call, per transport.        *)
(***************************************************************************)
Bodies ==
    << Env(Str(T_ok_id1)), Env(Str(T_ok_id2)), Env(Str(T_ok)), Env(Str(T_ok_sdata)),
       Env(Str(T_ok_noid)), Env(Str(T_err)), Env(Str(T_err_id1)), Env(Str(T_url)),
       Env(Str(T_removed)), Env(Str(T_plain)), EnvRpcError, EnvNullResult,
       EnvNoText, EnvIntContent, EnvIntText, EnvCode0, BodyList >>

HttpOutcomes ==
    << [raises |-> TRUE, body |-> None], [raises |-> FALSE, body |-> Raise] >>
    \o [i \in DOMAIN Bodies |-> [raises |-> FALSE, body |-> Bodies[i]]]

Lines == << D_ok_id1, D_ok_id2, D_ok_noid, D_err, D_err_id1, D_url, D_removed,
            D_code0, D_null, D_bad >>

StdioOutcomes ==
    << [raises |-> TRUE, stdout |-> <<>>],
       [raises |-> FALSE, stdout |-> <<"">>],
       [raises |-> FALSE, stdout |-> <<"starting mcp-server">>],
       [raises |-> FALSE, stdout |-> <<D_err, D_ok_id1>>] >>
    \o [i \in DOMAIN Lines |->
          [raises |-> FALSE, stdout |-> <<"starting mcp-server", Lines[i]>>]]

SseOutcomes ==
    << [raises |-> TRUE, events |-> <<>>],
       [raises |-> FALSE, events |-> <<>>],
       [raises |-> FALSE, events |-> << <<"endpoint", "/custom">> >>],
       [raises |-> FALSE, events |-> << <<"message", D_bad>>, <<"message", D_ok_id2>> >>] >>
    \o [i \in DOMAIN Lines |->
          [raises |-> FALSE, events |-> << <<"none", "ping">>, <<"message", Lines[i]>> >>]]

\* CALLERS, line 96, in the order the loop of line 120 takes them.
CALLERS == << "HTTP", "STDIO", "SSE" >>

Outcomes(p) ==
    CASE p = "HTTP"  -> HttpOutcomes
      [] p = "STDIO" -> StdioOutcomes
      [] p = "SSE"   -> SseOutcomes

\* call(tool, args) of the loop body: the transport's caller on the outcome
\* the environment gives this call.
call(p, o) ==
    CASE p = "HTTP"  -> http_call(o)
      [] p = "STDIO" -> stdio_call(o)
      [] p = "SSE"   -> sse_call(o)

(***************************************************************************)
(* The event stream of sse_call.  A line of the stream is <<kind, value>>: *)
(* kind "event" for "event:<value>", "data" for "data:<value>", "blank"    *)
(* for the empty line and "other" for any other line; the value is already *)
(* stripped.                                                               *)
(***************************************************************************)
\* The calls of sse_call the model runs one after the other.
MaxCalls == 3

\* time.time() + 10 of line 83 and q.get(timeout=2) of line 86, in seconds.
PollDeadline == 10
PollWait == 2

MCP_HTTP == "http://localhost:8090"
Fallback == "/messages"

\* The streams a connection to /sse may deliver.
\* The scenario of the specification: the endpoint, then the response.
S_scenario == << <<"event", "endpoint">>, <<"data", "/custom">>, <<"blank", "">>,
                 <<"event", "message">>, <<"data", D_code0>> >>
\* Never a message event: a comment, a data line without an event, the endpoint.
S_silent   == << <<"other", ": ping">>, <<"data", "ping">>,
                 <<"event", "endpoint">>, <<"data", "/custom">> >>
\* No endpoint event; a message event that a blank line cuts from its data.
S_fallback == << <<"event", "message">>, <<"data", D_ok_id1>>,
                 <<"event", "message">>, <<"blank", "">>, <<"data", D_ok_id2>> >>
\* A message event whose data is not JSON, then one whose data is.
S_badmsg   == << <<"event", "endpoint">>, <<"data", "/custom">>,
                 <<"event", "message">>, <<"data", D_bad>>,
                 <<"event", "message">>, <<"data", D_ok_id1>> >>
\* An endpoint that is no path.
S_noslash  == << <<"event", "endpoint">>, <<"data", "custom">> >>
Streams == << S_scenario, S_silent, S_fallback, S_badmsg, S_noslash >>

(***************************************************************************)
(* The state.                                                              *)
(***************************************************************************)
VARIABLES
    proto,        \* index into CALLERS of the current transport, 0 before the loop
    pc,           \* the call site the main script is at
    PASS, FAIL, SKIP, ERRORS,          \* the tally, lines 11-12
    wi_id, cmt_id, lbl_id, spr_id,     \* the identifiers of lines 139, 151, 173, 188
    exit_status,  \* the argument of sys.exit, -1 while the script runs
    lastcall,     \* history: the last call made, and whether its transport failed
    pending,      \* history: the resources created and not yet deleted
    checks        \* history: how many times check has been called

mainVars == << proto, pc, PASS, FAIL, SKIP, ERRORS, wi_id, cmt_id, lbl_id, spr_id,
               exit_status, lastcall, pending, checks >>

\* The state of sse_call and its listener threads.
VARIABLES
    scall,        \* the call of sse_call under way or last returned, 0 before the first
    spc,          \* where the caller is: idle, wait_ready, get_endpoint, post, poll
    q, ready, stop,   \* the queue and the two events of that call, lines 43-45
    lst,          \* the listener thread of that call: unborn, connecting, reading, ended
    stream,       \* the lines the server sends on that listener's connection
    lpos,         \* how many of them the listener has read
    event_type,   \* line 50
    leaked,       \* how many listener threads of earlier calls are still alive
    endpoint,     \* line 71
    elapsed,      \* seconds since the deadline of line 83 was set
    ret,          \* what the call under way returned, None until it does
    hist          \* history of the call under way: its dequeues and its POST

sseVars == << scall, spc, q, ready, stop, lst, stream, lpos, event_type, leaked,
              endpoint, elapsed, ret, hist >>

vars == << mainVars, sseVars >>

\* One line of ERRORS (line 105).  The text "[proto] tool -> str(result)[:140]"
\* is only printed at the end (line 214) and decides nothing: every line is
\* the same token here.
ErrorLine(p, tool, result) == "failed"

\* check with `except: return` in place of `except: ok = False`: a predicate
\* that raises leaves the tally as it was.
checkMut(p, tool, result, expect_fn) ==
    LET v == Apply(expect_fn, result) IN
    IF v.k = "raise" THEN UNCHANGED << PASS, FAIL, ERRORS >>
    ELSE IF Truthy(v)
    THEN /\ PASS' = PASS + 1
         /\ UNCHANGED << FAIL, ERRORS >>
    ELSE /\ FAIL' = FAIL + 1
         /\ ERRORS' = Append(ERRORS, ErrorLine(p, tool, result))
         /\ UNCHANGED PASS

\* check(proto, tool, result, expect_fn), lines 98-106, on the tally.
check(p, tool, result, expect_fn) ==
    LET v  == Apply(expect_fn, result)
        ok == IF v.k = "raise" THEN Bool(FALSE) ELSE v
    IN  IF Truthy(ok)
        THEN /\ PASS' = PASS + 1
             /\ UNCHANGED << FAIL, ERRORS >>
        ELSE /\ FAIL' = FAIL + 1
             /\ ERRORS' = Append(ERRORS, ErrorLine(p, tool, result))
             /\ UNCHANGED PASS


(***************************************************************************)
(* The body of the loop, lines 123-201, statement by statement.            *)
(*   check   check(proto, tool, call(tool, args), pred)                    *)
(*   create  x = call(tool, args); check(proto, tool, x, has_id);          *)
(*           x_id = get_id(x)                                              *)
(*   branch  if x_id: (the next statement)  else: SKIP += skip, and on to  *)
(*           the statement of tool `else`                                  *)
(* arg names the identifier variable the call's arguments carry; del marks *)
(* the calls that delete the resource of arg; dead names the identifier    *)
(* variables that are not read again before they are assigned again.       *)
(***************************************************************************)
Chk(tool, pred, arg) ==
    [kind |-> "check", tool |-> tool, pred |-> pred, arg |-> arg, del |-> FALSE,
     var |-> "none", skip |-> 0, else |-> "none", dead |-> {}]
Del(tool, pred, arg, dead) ==
    [kind |-> "check", tool |-> tool, pred |-> pred, arg |-> arg, del |-> TRUE,
     var |-> "none", skip |-> 0, else |-> "none", dead |-> dead]
Crt(tool, arg, var) ==
    [kind |-> "create", tool |-> tool, pred |-> "has_id", arg |-> arg, del |-> FALSE,
     var |-> var, skip |-> 0, else |-> "none", dead |-> {}]
\* The if/else of the comment with the work item's delete (lines 155-156)
\* indented into `if cmt_id:`: without a comment the script goes on after it.
BrnMut(var, skip, else, dead) ==
    [kind |-> "branch", tool |-> "if", pred |-> "none", arg |-> "none", del |-> FALSE,
     var |-> var, skip |-> skip,
     else |-> IF var = "cmt" THEN "files.upload" ELSE else, dead |-> dead]

Brn(var, skip, else, dead) ==
    [kind |-> "branch", tool |-> "if", pred |-> "none", arg |-> "none", del |-> FALSE,
     var |-> var, skip |-> skip, else |-> else, dead |-> dead]

Script ==
    << Chk("projects.list", "is_ok", "none"),
       Chk("projects.get", "is_ok", "none"),
       Chk("work_items.list", "is_ok", "none"),
       Chk("work_items.get", "is_ok", "none"),
       Chk("work_items.search", "is_ok", "none"),
       Chk("work_items.get_by_identifier", "is_dict", "none"),
       Crt("work_items.create", "none", "wi"),
       Brn("wi", 10, "files.upload", {"wi"}),
       Chk("work_items.update", "is_ok", "wi"),
       Chk("work_items.add_label", "ok_or_str", "wi"),
       Chk("work_items.add_labels", "ok_or_str", "wi"),
       Chk("work_items.list_labels", "is_ok", "wi"),
       Chk("work_items.remove_label", "ok_or_str", "wi"),
       Crt("comments.create", "wi", "cmt"),
       Chk("comments.list", "is_ok", "wi"),
       Brn("cmt", 1, "work_items.delete", {"cmt"}),
       Del("comments.delete", "ok_or_str", "cmt", {"cmt"}),
       Del("work_items.delete", "ok_or_str", "wi", {"wi"}),
       Chk("files.upload", "has_url", "none"),
       Chk("labels.list", "is_ok", "none"),
       Chk("labels.list_by_project", "is_ok", "none"),
       Crt("labels.create", "none", "lbl"),
       Brn("lbl", 2, "members.list", {"lbl"}),
       Chk("labels.update", "is_ok", "lbl"),
       Del("labels.delete", "ok_or_str", "lbl", {"lbl"}),
       Chk("members.list", "is_ok", "none"),
       Chk("sprints.list", "is_ok", "none"),
       Crt("sprints.create", "none", "spr"),
       Brn("spr", 2, "proposals.list", {"spr"}),
       Chk("sprints.update", "is_ok", "spr"),
       Del("sprints.delete", "ok_or_str", "spr", {"spr"}),
       Chk("proposals.list", "is_ok", "none"),
       Chk("proposals.get", "has_code", "none"),
       Chk("search.all", "is_ok", "none") >>

\* pc: 0 at the loop's header (line 120), i at statement Script[i],
\* Len(Script) + 1 after sys.exit, and Len(Script) + 2 after an exception
\* that nothing caught ended the script.
AtHeader == 0
Exited == Len(Script) + 1
Crashed == Len(Script) + 2

\* The statement after Script[i]: the next one, or the header after the last.
Following(i) == IF i = Len(Script) THEN AtHeader ELSE i + 1

\* The statement of a tool.
StatementOf(tool) == CHOOSE i \in DOMAIN Script : Script[i].tool = tool

\* The value of an identifier variable.
IdOf(var) ==
    CASE var = "wi"  -> wi_id
      [] var = "cmt" -> cmt_id
      [] var = "lbl" -> lbl_id
      [] var = "spr" -> spr_id
      [] OTHER       -> None

\* x_id = v for the identifier variable var (none: no assignment).  The
\* variables of dead are not read again before the script assigns them again
\* (lines 139, 151, 173, 188), so the model forgets their values: a stale
\* identifier is never part of a state.
SetIds(var, v, dead) ==
    LET new(x, old) == IF x = var THEN v ELSE IF x \in dead THEN None ELSE old IN
    /\ wi_id'  = new("wi", wi_id)
    /\ cmt_id' = new("cmt", cmt_id)
    /\ lbl_id' = new("lbl", lbl_id)
    /\ spr_id' = new("spr", spr_id)

\* The main script before the loop: the tally of lines 11-12.
MainInit ==
    /\ proto = 0
    /\ pc = AtHeader
    /\ PASS = 0 /\ FAIL = 0 /\ SKIP = 0
    /\ ERRORS = << >>
    /\ wi_id = None /\ cmt_id = None /\ lbl_id = None /\ spr_id = None
    /\ exit_status = -1
    /\ lastcall = [tool |-> "none", arg |-> None, failed |-> FALSE, raised |-> FALSE]
    /\ pending = {}
    /\ checks = 0

Running == pc \in DOMAIN Script

\* What each transport's caller returns on each outcome.
HttpResults  == [n \in DOMAIN HttpOutcomes  |-> http_call(HttpOutcomes[n])]
StdioResults == [n \in DOMAIN StdioOutcomes |-> stdio_call(StdioOutcomes[n])]
SseResults   == [n \in DOMAIN SseOutcomes   |-> sse_call(SseOutcomes[n])]
Results(p) ==
    CASE p = "HTTP"  -> HttpResults
      [] p = "STDIO" -> StdioResults
      [] p = "SSE"   -> SseResults

\* The call failed at the transport level: the request or the process raised
\* (timeout, connection error), the body or the line was not JSON or not a
\* response extract can read, the process printed no JSON line, or no
\* message event gave a result before the deadline.  These are the paths on
\* which the callers build their own {"error": ...}.
HttpFailed  == [n \in DOMAIN HttpOutcomes |->
                  \/ HttpOutcomes[n].raises
                  \/ HttpOutcomes[n].body.k = "raise"
                  \/ extract(HttpOutcomes[n].body).k = "raise"]
StdioFailed == [n \in DOMAIN StdioOutcomes |->
                  \/ StdioOutcomes[n].raises
                  \/ FirstBrace(StdioOutcomes[n].stdout) = 0
                  \/ HandleMessage(StdioOutcomes[n].stdout[
                         FirstBrace(StdioOutcomes[n].stdout)]).k = "raise"]
SseFailed   == [n \in DOMAIN SseOutcomes |->
                  \/ SseOutcomes[n].raises
                  \/ \A i \in DOMAIN SseOutcomes[n].events :
                        \/ SseOutcomes[n].events[i][1] # "message"
                        \/ HandleMessage(SseOutcomes[n].events[i][2]).k = "raise"]
TransportFailed(p) ==
    CASE p = "HTTP"  -> HttpFailed
      [] p = "STDIO" -> StdioFailed
      [] p = "SSE"   -> SseFailed

\* for proto, call in CALLERS.items(): the next transport, line 120.
NextTransport ==
    /\ pc = AtHeader
    /\ proto < Len(CALLERS)
    /\ proto' = proto + 1
    /\ pc' = 1
    /\ UNCHANGED << PASS, FAIL, SKIP, ERRORS, wi_id, cmt_id, lbl_id, spr_id,
                    exit_status, lastcall, pending, checks >>
    /\ UNCHANGED sseVars

\* An exception reaches the top of the script: Python prints the traceback
\* and the process ends with status 1, without the summary.
Crash ==
    /\ pc' = Crashed
    /\ exit_status' = 1
    /\ UNCHANGED << proto, PASS, FAIL, SKIP, ERRORS, wi_id, cmt_id, lbl_id, spr_id,
                    lastcall, pending, checks >>

\* The history of one call: the tool, the identifier it carried, whether the
\* transport failed, and whether the predicate raised on the result.
Called(s, p, n) ==
    [tool |-> s.tool, arg |-> IdOf(s.arg), failed |-> TransportFailed(p)[n],
     raised |-> Apply(s.pred, Results(p)[n]).k = "raise"]

\* A check statement: one call, one check of its result.
CheckStep ==
    /\ Running
    /\ Script[pc].kind = "check"
    /\ LET s == Script[pc]
           p == CALLERS[proto]
       IN  \E n \in DOMAIN Outcomes(p) :
              IF Results(p)[n].k = "raise" THEN Crash
              ELSE /\ check(p, s.tool, Results(p)[n], s.pred)
                   /\ lastcall' = Called(s, p, n)
                   /\ pending' = IF s.del THEN pending \ {<<s.arg, IdOf(s.arg)>>}
                                 ELSE pending
                   /\ SetIds("none", None, s.dead)
                   /\ checks' = checks + 1
                   /\ pc' = Following(pc)
                   /\ UNCHANGED << proto, SKIP, exit_status >>
    /\ UNCHANGED sseVars

\* A create statement: the call, the check of its result with has_id, and
\* x_id = get_id(result).
CreateStep ==
    /\ Running
    /\ Script[pc].kind = "create"
    /\ LET s == Script[pc]
           p == CALLERS[proto]
       IN  \E n \in DOMAIN Outcomes(p) :
              LET id == get_id(Results(p)[n]) IN
              IF Results(p)[n].k = "raise" THEN Crash
              ELSE /\ check(p, s.tool, Results(p)[n], s.pred)
                   /\ SetIds(s.var, id, s.dead)
                   /\ lastcall' = Called(s, p, n)
                   /\ pending' = IF Truthy(id) THEN pending \cup {<<s.var, id>>}
                                 ELSE pending
                   /\ checks' = checks + 1
                   /\ pc' = Following(pc)
                   /\ UNCHANGED << proto, SKIP, exit_status >>
    /\ UNCHANGED sseVars

\* if x_id: ... else: SKIP += n   (lines 140/157-158, 153-154, 174/177, 189/192)
BranchStep ==
    /\ Running
    /\ Script[pc].kind = "branch"
    /\ LET s == Script[pc] IN
       IF Truthy(IdOf(s.var))
       THEN /\ pc' = Following(pc)
            /\ UNCHANGED << SKIP, wi_id, cmt_id, lbl_id, spr_id >>
       ELSE /\ SKIP' = SKIP + s.skip
            /\ pc' = StatementOf(s.else)
            /\ SetIds("none", None, s.dead)
    /\ UNCHANGED << proto, PASS, FAIL, ERRORS, exit_status, lastcall, pending, checks >>
    /\ UNCHANGED sseVars

\* sys.exit(1 if FAIL > 1 else 0).
ExitStatusMut(fail) == IF fail > 1 THEN 1 ELSE 0

\* sys.exit(1 if FAIL > 0 else 0), line 216.
ExitStatus(fail) == IF fail > 0 THEN 1 ELSE 0

\* The summary and the exit, lines 203-216, once the loop is over.
Summary ==
    /\ pc = AtHeader
    /\ proto = Len(CALLERS)
    /\ exit_status' = ExitStatus(FAIL)
    /\ pc' = Exited
    /\ UNCHANGED << proto, PASS, FAIL, SKIP, ERRORS, wi_id, cmt_id, lbl_id, spr_id,
                    lastcall, pending, checks >>
    /\ UNCHANGED sseVars

\* No call of sse_call has been made.
SseIdle ==
    /\ scall = 0
    /\ spc = "idle"
    /\ q = << >>
    /\ ready = FALSE
    /\ stop = FALSE
    /\ lst = "unborn"
    /\ stream = << >>
    /\ lpos = 0
    /\ event_type = "none"
    /\ leaked = 0
    /\ endpoint = Fallback
    /\ elapsed = 0
    /\ ret = None
    /\ hist = << >>

Init == MainInit /\ SseIdle

Next ==
    \/ NextTransport
    \/ CheckStep
    \/ CreateStep
    \/ BranchStep
    \/ Summary

Spec == Init /\ [][Next]_vars

\* Every call returns within its timeouts (15 s for HTTP and STDIO, the
\* bounded waits of sse_call), so the script always takes its next step.
FairSpec == Spec /\ WF_vars(Next)

(***************************************************************************)
(* Inside sse_call, lines 40-94: the caller and its listener thread.       *)
(* sse_call is called MaxCalls times, one call after the other, as the     *)
(* script does.  The listener of the call under way (or last returned) is  *)
(* followed line by line; a listener that is still alive when the next     *)
(* call starts has no reader left for its queue and is only counted, in    *)
(* leaked, until its thread ends.                                          *)
(***************************************************************************)
Alive == lst \in {"connecting", "reading"}

\* lines 43-67: a new queue and two new events for this call, and its
\* listener thread started.
SseStart ==
    /\ spc = "idle"
    /\ scall < MaxCalls
    /\ scall' = scall + 1
    /\ spc' = "wait_ready"
    /\ leaked' = IF Alive THEN leaked + 1 ELSE leaked
    /\ q' = << >>
    /\ ready' = FALSE
    /\ stop' = FALSE
    /\ lst' = "connecting"
    /\ stream' = << >>
    /\ lpos' = 0
    /\ event_type' = "none"
    /\ endpoint' = Fallback
    /\ elapsed' = 0
    /\ ret' = None
    /\ hist' = << >>
    /\ UNCHANGED mainVars

\* listen, line 49: the GET of /sse answers with one of the streams, or
\* raises and the thread ends (line 64).
ListenConnect ==
    /\ lst = "connecting"
    /\ \/ /\ \E i \in DOMAIN Streams : stream' = Streams[i]
          /\ lst' = "reading"
       \/ /\ lst' = "ended"
          /\ UNCHANGED stream
    /\ UNCHANGED << scall, spc, q, ready, stop, lpos, event_type, leaked, endpoint,
                    elapsed, ret, hist >>
    /\ UNCHANGED mainVars

\* listen, lines 51-63: one line of the stream.  Once the call has returned
\* nothing reads its queue or waits for its event any more: what the
\* listener puts there is lost.
ListenLine ==
    /\ lst = "reading"
    /\ lpos < Len(stream)
    /\ lpos' = lpos + 1
    /\ LET line == stream[lpos + 1]
           heard == spc # "idle"
       IN  IF stop
           THEN /\ lst' = "ended"
                /\ UNCHANGED << q, ready, event_type >>
           ELSE /\ UNCHANGED lst
                /\ CASE line[1] = "event" ->
                          /\ event_type' = line[2]
                          /\ UNCHANGED << q, ready >>
                     [] line[1] = "data" ->
                          /\ q' = IF heard THEN Append(q, <<event_type, line[2]>>) ELSE q
                          /\ ready' = IF heard THEN ready \/ event_type = "endpoint"
                                      ELSE ready
                          /\ event_type' = "none"
                     [] line[1] = "blank" ->
                          /\ event_type' = "none"
                          /\ UNCHANGED << q, ready >>
                     [] OTHER -> UNCHANGED << q, ready, event_type >>
    /\ UNCHANGED << scall, spc, stop, stream, leaked, endpoint, elapsed, ret, hist >>
    /\ UNCHANGED mainVars

\* listen: the connection ends, or the read raises (the timeout of line 49,
\* a dropped connection), and the thread ends (line 64).
ListenEnd ==
    /\ lst = "reading"
    /\ lst' = "ended"
    /\ UNCHANGED << scall, spc, q, ready, stop, stream, lpos, event_type, leaked,
                    endpoint, elapsed, ret, hist >>
    /\ UNCHANGED mainVars

\* The thread of a listener of an earlier call ends: its next line finds stop
\* set (line 52), or its connection ends.
LeakedEnd ==
    /\ leaked > 0
    /\ leaked' = leaked - 1
    /\ UNCHANGED << scall, spc, q, ready, stop, lst, stream, lpos, event_type,
                    endpoint, elapsed, ret, hist >>
    /\ UNCHANGED mainVars

\* ready.wait(timeout=5), line 68: the event is set, or the wait times out.
ReadyWait ==
    /\ spc = "wait_ready"
    /\ \/ ready
       \/ ~ready
    /\ spc' = "get_endpoint"
    /\ UNCHANGED << scall, q, ready, stop, lst, stream, lpos, event_type, leaked,
                    endpoint, elapsed, ret, hist >>
    /\ UNCHANGED mainVars

\* lines 71-76: the first event of the queue, if one is there within 3 s.
GetEndpoint ==
    /\ spc = "get_endpoint"
    /\ IF q # << >>
       THEN LET e == Head(q) IN
            /\ q' = Tail(q)
            /\ endpoint' = IF e[1] = "endpoint" THEN e[2] ELSE Fallback
            /\ hist' = Append(hist, <<"get", e[1], e[2]>>)
       ELSE /\ UNCHANGED << q, endpoint >>
            /\ hist' = Append(hist, <<"get", "empty", "">>)
    /\ spc' = "post"
    /\ UNCHANGED << scall, ready, stop, lst, stream, lpos, event_type, leaked,
                    elapsed, ret >>
    /\ UNCHANGED mainVars

\* endpoint.startswith("/"), on the endpoints of the model.
StartsWithSlash(e) == e \in {"/custom", "/messages"}

\* line 79; a URL is <<base, path>>.
Url(e) == IF StartsWithSlash(e) THEN <<MCP_HTTP, e>> ELSE <<"", e>>

\* lines 79-83: the POST.  It raises on a URL without a scheme and may raise
\* on any (timeout, connection error): the outer handler of line 94 returns
\* the error, and stop is not set.  Otherwise the deadline is set.
Post ==
    /\ spc = "post"
    /\ \/ /\ Url(endpoint)[1] # ""
          /\ hist' = Append(hist, <<"post", Url(endpoint)[1], Url(endpoint)[2]>>)
          /\ spc' = "poll"
          /\ elapsed' = 0
          /\ UNCHANGED ret
       \/ /\ hist' = Append(hist, <<"post", "raised", Url(endpoint)[2]>>)
          /\ spc' = "idle"
          /\ ret' = ErrorResult(ExcMessage)
          /\ UNCHANGED elapsed
    /\ UNCHANGED << scall, q, ready, stop, lst, stream, lpos, event_type, leaked,
                    endpoint >>
    /\ UNCHANGED mainVars

\* lines 84-90 with an event in the queue: a message event sets stop and its
\* payload is returned, unless parsing it raises; the bare except of line 90
\* then continues the loop, as it does after any other event.  The wait took
\* d seconds, less than the 2 s of the timeout.
PollGet ==
    /\ spc = "poll"
    /\ elapsed < PollDeadline
    /\ q # << >>
    /\ LET e == Head(q) IN
       /\ q' = Tail(q)
       /\ hist' = Append(hist, <<"poll", e[1], e[2]>>)
       /\ IF e[1] = "message"
          THEN /\ stop' = TRUE
               /\ IF HandleMessage(e[2]).k = "raise"
                  THEN UNCHANGED << spc, ret >>
                  ELSE /\ spc' = "idle"
                       /\ ret' = HandleMessage(e[2])
          ELSE UNCHANGED << stop, spc, ret >>
    /\ \E d \in 0..(PollWait - 1) : elapsed' = elapsed + d
    /\ UNCHANGED << scall, ready, lst, stream, lpos, event_type, leaked, endpoint >>
    /\ UNCHANGED mainVars

\* lines 86 and 90: the queue stays empty for the 2 s of the wait.
PollEmpty ==
    /\ spc = "poll"
    /\ elapsed < PollDeadline
    /\ q = << >>
    /\ elapsed' = elapsed + PollWait
    /\ UNCHANGED << scall, spc, q, ready, stop, lst, stream, lpos, event_type, leaked,
                    endpoint, ret, hist >>
    /\ UNCHANGED mainVars

\* The loop's end without lines 92-93's return: Python returns None.
PollTimeoutMut ==
    /\ spc = "poll"
    /\ elapsed >= PollDeadline
    /\ stop' = TRUE
    /\ spc' = "idle"
    /\ ret' = None
    /\ UNCHANGED << scall, q, ready, lst, stream, lpos, event_type, leaked, endpoint,
                    elapsed, hist >>
    /\ UNCHANGED mainVars

\* lines 92-93: the deadline has passed.
PollTimeout ==
    /\ spc = "poll"
    /\ elapsed >= PollDeadline
    /\ stop' = TRUE
    /\ spc' = "idle"
    /\ ret' = TimeoutResult
    /\ UNCHANGED << scall, q, ready, lst, stream, lpos, event_type, leaked, endpoint,
                    elapsed, hist >>
    /\ UNCHANGED mainVars

CallerStep == ReadyWait \/ GetEndpoint \/ Post \/ PollGet \/ PollEmpty \/ PollTimeout

NextSSE ==
    \/ SseStart
    \/ ListenConnect
    \/ ListenLine
    \/ ListenEnd
    \/ LeakedEnd
    \/ ReadyWait
    \/ GetEndpoint
    \/ Post
    \/ PollGet
    \/ PollEmpty
    \/ PollTimeout

SpecSSE == Init /\ [][NextSSE]_vars

\* The caller's waits are all bounded (5 s, 3 s, 15 s, 2 s), so a call under
\* way always takes its next step; the stream owes nothing.
SpecSSEFair == SpecSSE /\ WF_vars(CallerStep)

(***************************************************************************)
(* The main script: what is checked of it.                                 *)
(***************************************************************************)
\* How far the script is: strictly larger after every step.
Pos ==
    CASE pc = Crashed  -> (Len(CALLERS) + 1) * (Len(Script) + 1) + 1
      [] pc = Exited   -> (Len(CALLERS) + 1) * (Len(Script) + 1)
      [] pc = AtHeader -> proto * (Len(Script) + 1)
      [] OTHER         -> (proto - 1) * (Len(Script) + 1) + pc

\* The statements that call a tool and check it.
ToolsPerTransport == Cardinality({i \in DOMAIN Script : Script[i].kind # "branch"})

\* C1: whatever the calls return, the run never aborts: no exception ends the
\* script, every step moves it forward (so no statement, hence no call, is
\* taken twice for one transport: no retry), the transports are taken in the
\* order HTTP, STDIO, SSE, and the script reaches the summary and exits from
\* it after the third.
C1_RunsToSummary ==
    /\ [](pc # Crashed)
    /\ [][Pos' > Pos /\ proto' \in {proto, proto + 1}]_vars
    /\ [](pc = Exited => proto = Len(CALLERS) /\ exit_status \in {0, 1})
    /\ <>(pc = Exited)

\* C1 witness: the script exited from the summary although every check of
\* the three transports failed.
C1_Witness == pc = Exited /\ PASS = 0 /\ FAIL > 0 /\ proto = Len(CALLERS)

\* What one step may do to the tally: a step that calls check adds one to
\* exactly one of PASS and FAIL, appends one line to ERRORS exactly when it
\* adds to FAIL, and leaves SKIP alone; any other step leaves PASS, FAIL and
\* ERRORS alone.
CheckEffect ==
    LET dP == PASS' - PASS
        dF == FAIL' - FAIL
    IN  IF checks' = checks + 1
        THEN /\ << dP, dF >> \in { <<1, 0>>, <<0, 1>> }
             /\ SKIP' = SKIP
             /\ IF dF = 1
                THEN Len(ERRORS') = Len(ERRORS) + 1 /\ SubSeq(ERRORS', 1, Len(ERRORS)) = ERRORS
                ELSE ERRORS' = ERRORS
        ELSE /\ checks' = checks
             /\ PASS' = PASS /\ FAIL' = FAIL /\ ERRORS' = ERRORS

\* C2: every call of check updates the tally exactly once (one of PASS and
\* FAIL, never both, never neither, also when the predicate raises), leaves
\* SKIP unchanged and appends to ERRORS exactly with FAIL; so len(ERRORS) =
\* FAIL in every state, and SKIP changes only outside check.
C2_TallyOnce ==
    /\ [](Len(ERRORS) = FAIL /\ PASS + FAIL = checks)
    /\ [][CheckEffect]_vars

\* C2 witness: the predicate raised on the last result (has_id on a result
\* whose data is no mapping), and the check was tallied as a failure.
C2_Witness ==
    /\ lastcall.raised
    /\ FAIL > 0 /\ PASS > 0 /\ SKIP > 0
    /\ Len(ERRORS) = FAIL

\* C3, as claimed: a call that fails at the transport level returns a mapping
\* with the key "error", and the check of that result is tallied as a FAIL,
\* never as a PASS, whatever the predicate of the statement.
C3_TransportErrorFails ==
    /\ [](\A i \in DOMAIN CALLERS : \A n \in DOMAIN Outcomes(CALLERS[i]) :
            TransportFailed(CALLERS[i])[n] =>
               /\ Results(CALLERS[i])[n].k = "dict"
               /\ HasKey(Results(CALLERS[i])[n], "error"))
    /\ [][(checks' = checks + 1 /\ lastcall'.failed) =>
             (FAIL' = FAIL + 1 /\ PASS' = PASS)]_vars

\* C4: the exit status is 0 exactly when no failure was recorded (FAIL = 0 and
\* ERRORS empty at the summary) and 1 otherwise; there is none before the exit.
C4_ExitStatus ==
    /\ pc = Exited =>
          /\ exit_status \in {0, 1}
          /\ exit_status = 0 <=> (FAIL = 0 /\ ERRORS = << >>)
    /\ pc \notin {Exited, Crashed} => exit_status = -1

\* C4 witness: one single failure among passes and skips, and the status is 1.
C4_Witness == pc = Exited /\ exit_status = 1 /\ FAIL = 1 /\ SKIP > 0

\* The statements between the create of a resource and its delete.
CreateOf(r) == CHOOSE i \in DOMAIN Script : Script[i].kind = "create" /\ Script[i].var = r
DeleteOf(r) == CHOOSE i \in DOMAIN Script : Script[i].del /\ Script[i].arg = r
Section(r) == (CreateOf(r) + 1) .. DeleteOf(r)

\* C5: a resource whose create yielded an identifier is pending only while
\* the script is between that create and the delete of the same section, and
\* the variable the delete call will carry holds that identifier: the script
\* does not leave the section (nor end) with the resource still there,
\* whatever the checks in between said.  With C1 (every step moves forward)
\* the delete call for that identifier follows.
C5_CleanupCompleteness ==
    \A e \in pending :
        /\ pc \in Section(e[1])
        /\ IdOf(e[1]) = e[2]

\* C5 witness: every check so far failed, the create's own included, and the
\* work item's identifier was still deleted, the comment's before it.
C5_Witness ==
    /\ lastcall.tool = "work_items.delete"
    /\ lastcall.arg = Str("id-1")
    /\ pending = {}
    /\ PASS = 0
    /\ SKIP = 0

\* C10, as claimed: every tool counts once per transport, as a pass, a fail
\* or a skip, so the tally grows by the same number over every iteration.
C10_ConstantTotal ==
    /\ pc = AtHeader => PASS + FAIL + SKIP = proto * ToolsPerTransport
    /\ pc = Exited => PASS + FAIL + SKIP = Len(CALLERS) * ToolsPerTransport


(***************************************************************************)
(* sse_call: what is checked of it.                                        *)
(***************************************************************************)
Returned == scall >= 1 /\ spc = "idle"

\* The places of hist where the polling loop dequeued a message event.
Consumed == { i \in DOMAIN hist : hist[i][1] = "poll" /\ hist[i][2] = "message" }

PostRaised == \E i \in DOMAIN hist : hist[i][1] = "post" /\ hist[i][2] = "raised"

\* No line of the stream opens a message event.
MessageFree(s) == \A i \in DOMAIN s : s[i] # <<"event", "message">>

CodeZero == Dict([code |-> Num(0)])

\* C6: on the stream that emits the endpoint event /custom and
\* then a message event carrying {"jsonrpc":"2.0","id":1,"result":{"code":0}},
\* a call that consumed the message has posted once, to /custom and not to
\* the fallback, after the endpoint was obtained and before the message was
\* consumed, and returns a result equivalent to {"code":0}.
C6_Scenario ==
    (stream = S_scenario /\ Returned /\ Consumed # {}) =>
        /\ Len(hist) >= 2
        /\ hist[1][1] = "get"
        /\ hist[2] = <<"post", MCP_HTTP, "/custom">>
        /\ \A i \in Consumed : i > 2
        /\ ret = CodeZero
        /\ is_ok(ret).b

\* C7, as stated: on a stream that never delivers a message event the call
\* returns, and what it returns is {"error": "no SSE response within 10s"}.
C7_TimeoutAsStated ==
    /\ [](Returned /\ MessageFree(stream) => ret = TimeoutResult)
    /\ (spc # "idle") ~> (spc = "idle")

\* C7, as the code has it: on such a stream every call returns, and returns
\* an error result; it is the timeout error exactly when the POST did not
\* raise, and then the deadline of 10 s had passed and stop was set.
C7_Timeout ==
    /\ [](Returned /\ MessageFree(stream) =>
            /\ ret.k = "dict" /\ HasKey(ret, "error")
            /\ ret = TimeoutResult <=> ~PostRaised
            /\ ret = TimeoutResult => elapsed >= PollDeadline /\ stop)
    /\ (spc # "idle") ~> (spc = "idle")

\* A call that timed out after polling past events that are no message.
C7_Witness ==
    /\ Returned
    /\ stream = S_silent
    /\ ret = TimeoutResult
    /\ \E i \in DOMAIN hist : hist[i] = <<"poll", "endpoint", "/custom">>

\* C8, as stated: every listener is torn down with its call: none is alive
\* once its call has returned, none of an earlier call runs beside a later
\* call, and at most one is alive at any time.
C8_ListenerTornDown ==
    /\ Returned => ~Alive
    /\ leaked = 0

\* C9, as stated: the first message event the polling loop dequeues ends the
\* call, which returns that event's parsed, normalized payload; no later
\* event is dequeued.
C9_FirstMessageReturned ==
    \A i \in Consumed :
        /\ i = Len(hist)
        /\ Returned
        /\ ret = HandleMessage(hist[i][3])
====
